---- MODULE Spec2Model ----
(***************************************************************************)
(* State-machine model of contracts/CryptoPriceGuess.sol: the prediction   *)
(* event registry, the per-user encrypted predictions, the encrypted       *)
(* running sum, the decryption request / callback pair, and the encrypted  *)
(* value store that shares the request table with the finalization.        *)
(*                                                                         *)
(* Every external function of the contract is one action, enabled when    *)
(* none of its require checks fails; the revert message of a call is an    *)
(* operator (SubmitErr, EndErr, ...) that evaluates the checks in source    *)
(* order.  The FHE coprocessor (ciphertext handles, the access-control     *)
(* list and the decryption request counter) is modelled as the environment *)
(* the contract calls into.                                                *)
(***************************************************************************)
EXTENDS Integers, Sequences, FiniteSets, TLC

VARIABLES
    now,                \* block.timestamp
    predictionEvents,   \* PredictionEvent[] (event id e is element e + 1)
    userPredictions,    \* mapping(uint256 => mapping(address => UserPrediction))
    requestToEvent,     \* mapping(uint256 => uint256) _requestToEvent
    fheACL,             \* persistent FHE.allow / FHE.allowThis grants
    decryptionRequests, \* requests issued by FHE.requestDecryption (id r is element r + 1)
    encryptedStorages,  \* EncryptedStorage[] (storage id i is element i + 1)
    userEncryptedStorages, \* mapping(address => uint256[])
    lastCall            \* the last external call and its outcome

vars == <<now, predictionEvents, userPredictions, requestToEvent, fheACL,
          decryptionRequests, encryptedStorages, userEncryptedStorages, lastCall>>

storage == <<predictionEvents, userPredictions, requestToEvent, fheACL,
             decryptionRequests, encryptedStorages, userEncryptedStorages>>

----------------------------------------------------------------------------
(* Bounds of the model *)

MaxEvents == 2
MaxRequests == 2

(* Program constants *)

HOUR == 3600
MAX_BATCH == 10
B16 == 65536

Users == {"alice", "bob"}
\* the users that create events in Spec
Creators == {"alice"}
CONTRACT == "this"

\* block.timestamp of the block that deploys the contract (any value > 0)
DEPLOY_TIME == HOUR

\* block timestamps the model visits
TimePoints == {DEPLOY_TIME, DEPLOY_TIME + HOUR}

EventIds == 0 .. (MaxEvents - 1)
\* event ids a caller may pass: the possible ids and one that never exists
EventIdArgs == 0 .. MaxEvents
\* request ids: 0 .. MaxRequests - 1 can be issued, MaxRequests never is
RequestIds == 0 .. MaxRequests

----------------------------------------------------------------------------
(* uint32 values as two 16-bit limbs, value = hi * 2^16 + lo *)

U32(hi, lo) == [hi |-> hi, lo |-> lo]

U32Zero == U32(0, 0)

\* uint32(x) of a small natural number
ToU32(n) == U32((n \div B16) % B16, n % B16)

\* FHE.add on euint32: addition modulo 2^32
U32Add(a, b) ==
    LET lo == a.lo + b.lo
        hi == a.hi + b.hi + (lo \div B16)
    IN  U32(hi % B16, lo % B16)

\* uint32 / uint32 (truncating) for a divisor below 2^15
U32Div(a, d) ==
    LET n == d.lo
        r == a.hi % n
    IN  U32(a.hi \div n, (r * B16 + a.lo) \div n)

----------------------------------------------------------------------------
(* The FHE coprocessor.  A ciphertext handle is the sequence of the input   *)
(* ciphertexts it was computed from; the uninitialised handle is <<>>.      *)

NullHandle == <<>>

\* the ciphertexts a user can encrypt client-side and submit with a proof
ClearValues == {U32(0, 1), U32(32768, 0)}

ExternalInput(user, value) == [owner |-> user, value |-> value]

\* FHE.fromExternal: the handle of a verified input
FromExternal(ext) == <<ext>>

\* FHE.add(a, b): the handle of the homomorphic sum
FheAdd(a, b) == a \o b

RECURSIVE Cleartext(_)
\* what the decryption oracle decrypts a handle to
Cleartext(h) ==
    IF h = <<>> THEN U32Zero
    ELSE U32Add(Cleartext(SubSeq(h, 1, Len(h) - 1)), h[Len(h)].value)

\* the oracle's payload for a decrypted uint32: its 4 bytes, big-endian
EncodeU32(v) == <<v.hi \div 256, v.hi % 256, v.lo \div 256, v.lo % 256>>

\* shr(224, mload(add(cleartexts, 32))): the first 4 bytes, big-endian
ParseU32(cleartexts) ==
    U32(cleartexts[1] * 256 + cleartexts[2], cleartexts[3] * 256 + cleartexts[4])

----------------------------------------------------------------------------
(* Contract storage *)

Ev(e) == predictionEvents[e + 1]

NoPrediction == [encryptedPrice |-> NullHandle, timestamp |-> 0, exists |-> FALSE]

Call(op, caller, id, arg, err) ==
    [op |-> op, caller |-> caller, id |-> id, arg |-> arg, err |-> err]

Init ==
    /\ now = DEPLOY_TIME
    /\ predictionEvents = <<>>
    /\ userPredictions = [e \in EventIds |-> [u \in Users |-> NoPrediction]]
    /\ requestToEvent = [r \in RequestIds |-> 0]
    /\ fheACL = {}
    /\ decryptionRequests = <<>>
    /\ encryptedStorages = <<>>
    /\ userEncryptedStorages = [u \in Users |-> <<>>]
    /\ lastCall = Call("deploy", CONTRACT, 0, <<>>, "")

----------------------------------------------------------------------------
(* Modifiers: each yields the revert message, or "" when the check passes *)

eventExists(eventId) ==
    IF eventId < Len(predictionEvents) THEN "" ELSE "Event does not exist"

\* onlyAdmin with the require missing
onlyAdmin_Anyone(eventId, sender) == ""

onlyAdmin(eventId, sender) ==
    IF Ev(eventId).admin = sender THEN "" ELSE "Only admin can perform this action"

\* eventActive without the require on block.timestamp < endTime
eventActive_NoExpiryCheck(eventId) ==
    IF ~Ev(eventId).isActive THEN "Event is not active"
    ELSE IF Ev(eventId).isFinalized THEN "Event is finalized"
    ELSE ""

eventActive(eventId) ==
    IF ~Ev(eventId).isActive THEN "Event is not active"
    ELSE IF ~(now < Ev(eventId).endTime) THEN "Event has ended"
    ELSE IF Ev(eventId).isFinalized THEN "Event is finalized"
    ELSE ""

----------------------------------------------------------------------------
(* createPredictionEvent *)

Titles == {"BTC Price Prediction"}
TokenTypes == {"BTC"}
Durations == {0, 1}

\* createPredictionEvent without the require on _durationInHours
CreateErr_NoDurationCheck(targetDate, durationInHours) ==
    IF ~(targetDate > now) THEN "Target date must be in the future"
    ELSE ""

CreateErr(targetDate, durationInHours) ==
    IF ~(targetDate > now) THEN "Target date must be in the future"
    ELSE IF ~(durationInHours > 0) THEN "Duration must be greater than 0"
    ELSE ""

\* the new event with the duration taken in seconds instead of hours
NewEvent_DurationInSeconds(title, tokenType, targetDate, durationInHours, sender) ==
    [title |-> title,
     tokenType |-> tokenType,
     targetDate |-> targetDate,
     endTime |-> now + durationInHours,
     isActive |-> TRUE,
     isFinalized |-> FALSE,
     admin |-> sender,
     totalPredictions |-> 0,
     actualPrice |-> 0,
     encryptedPriceSum |-> NullHandle,
     decryptedAveragePrice |-> U32Zero]

NewEvent(title, tokenType, targetDate, durationInHours, sender) ==
    [title |-> title,
     tokenType |-> tokenType,
     targetDate |-> targetDate,
     endTime |-> now + durationInHours * HOUR,
     isActive |-> TRUE,
     isFinalized |-> FALSE,
     admin |-> sender,
     totalPredictions |-> 0,
     actualPrice |-> 0,
     encryptedPriceSum |-> NullHandle,
     decryptedAveragePrice |-> U32Zero]

CreatePredictionEvent(sender, title, tokenType, targetDate, durationInHours) ==
    /\ CreateErr(targetDate, durationInHours) = ""
    /\ predictionEvents' = Append(predictionEvents,
            NewEvent(title, tokenType, targetDate, durationInHours, sender))
    /\ UNCHANGED <<now, userPredictions, requestToEvent, fheACL, decryptionRequests,
                   encryptedStorages, userEncryptedStorages>>

----------------------------------------------------------------------------
(* submitPrediction / submitBatchPredictions *)

\* the part of the storage a submission writes
World == [ev |-> predictionEvents, up |-> userPredictions, acl |-> fheACL]

\* the submission replaces the sum by the new ciphertext whatever the count
RecordPrediction_AlwaysSeeds(w, eventId, sender, encryptedPrice) ==
    LET event_ == w.ev[eventId + 1]
        sum == encryptedPrice
    IN  [ev |-> [w.ev EXCEPT ![eventId + 1] =
                    [event_ EXCEPT !.encryptedPriceSum = sum,
                                   !.totalPredictions = event_.totalPredictions + 1]],
         up |-> [w.up EXCEPT ![eventId][sender] =
                    [encryptedPrice |-> encryptedPrice, timestamp |-> now, exists |-> TRUE]],
         acl |-> w.acl \cup {<<sum, CONTRACT>>, <<sum, event_.admin>>}]

\* the submission is stored and summed but totalPredictions is left as it was
RecordPrediction_SkipsCount(w, eventId, sender, encryptedPrice) ==
    LET event_ == w.ev[eventId + 1]
        sum == IF event_.totalPredictions = 0
               THEN encryptedPrice
               ELSE FheAdd(event_.encryptedPriceSum, encryptedPrice)
    IN  [ev |-> [w.ev EXCEPT ![eventId + 1] =
                    [event_ EXCEPT !.encryptedPriceSum = sum]],
         up |-> [w.up EXCEPT ![eventId][sender] =
                    [encryptedPrice |-> encryptedPrice, timestamp |-> now, exists |-> TRUE]],
         acl |-> w.acl \cup {<<sum, CONTRACT>>, <<sum, event_.admin>>}]

\* access to the sum is granted for the first submission only
RecordPrediction_GrantsSeedOnly(w, eventId, sender, encryptedPrice) ==
    LET event_ == w.ev[eventId + 1]
        sum == IF event_.totalPredictions = 0
               THEN encryptedPrice
               ELSE FheAdd(event_.encryptedPriceSum, encryptedPrice)
    IN  [ev |-> [w.ev EXCEPT ![eventId + 1] =
                    [event_ EXCEPT !.encryptedPriceSum = sum,
                                   !.totalPredictions = event_.totalPredictions + 1]],
         up |-> [w.up EXCEPT ![eventId][sender] =
                    [encryptedPrice |-> encryptedPrice, timestamp |-> now, exists |-> TRUE]],
         acl |-> IF event_.totalPredictions = 0
                 THEN w.acl \cup {<<sum, CONTRACT>>, <<sum, event_.admin>>}
                 ELSE w.acl]

\* store the prediction, fold it into the sum, grant access, count it
RecordPrediction(w, eventId, sender, encryptedPrice) ==
    LET event_ == w.ev[eventId + 1]
        sum == IF event_.totalPredictions = 0
               THEN encryptedPrice
               ELSE FheAdd(event_.encryptedPriceSum, encryptedPrice)
    IN  [ev |-> [w.ev EXCEPT ![eventId + 1] =
                    [event_ EXCEPT !.encryptedPriceSum = sum,
                                   !.totalPredictions = event_.totalPredictions + 1]],
         up |-> [w.up EXCEPT ![eventId][sender] =
                    [encryptedPrice |-> encryptedPrice, timestamp |-> now, exists |-> TRUE]],
         acl |-> w.acl \cup {<<sum, CONTRACT>>, <<sum, event_.admin>>}]

\* submitPrediction without the eventActive modifier
SubmitErr_NoEventActive(eventId, sender) ==
    IF eventExists(eventId) # "" THEN eventExists(eventId)
    ELSE IF userPredictions[eventId][sender].exists THEN "Already submitted prediction"
    ELSE ""

\* submitPrediction without the require on userPredictions[..].exists
SubmitErr_NoDuplicateCheck(eventId, sender) ==
    IF eventExists(eventId) # "" THEN eventExists(eventId)
    ELSE eventActive(eventId)

SubmitErr(eventId, sender) ==
    IF eventExists(eventId) # "" THEN eventExists(eventId)
    ELSE IF eventActive(eventId) # "" THEN eventActive(eventId)
    ELSE IF userPredictions[eventId][sender].exists THEN "Already submitted prediction"
    ELSE ""

SubmitPrediction(sender, eventId, value) ==
    LET encryptedPrice == FromExternal(ExternalInput(sender, value))
        w == RecordPrediction(World, eventId, sender, encryptedPrice)
    IN  /\ SubmitErr(eventId, sender) = ""
        /\ predictionEvents' = w.ev
        /\ userPredictions' = w.up
        /\ fheACL' = w.acl
        /\ UNCHANGED <<now, requestToEvent, decryptionRequests,
                       encryptedStorages, userEncryptedStorages>>

\* the checks of a batch item without the require on !exists
BatchItemErr_NoDuplicateCheck(w, eventId, sender) ==
    IF ~(eventId < Len(w.ev)) THEN "Event does not exist"
    ELSE IF ~w.ev[eventId + 1].isActive THEN "Event is not active"
    ELSE IF ~(now < w.ev[eventId + 1].endTime) THEN "Event has ended"
    ELSE IF w.ev[eventId + 1].isFinalized THEN "Event is finalized"
    ELSE ""

\* the checks made on item i of a batch, against the storage as the
\* preceding items left it
BatchItemErr(w, eventId, sender) ==
    IF ~(eventId < Len(w.ev)) THEN "Event does not exist"
    ELSE IF ~w.ev[eventId + 1].isActive THEN "Event is not active"
    ELSE IF ~(now < w.ev[eventId + 1].endTime) THEN "Event has ended"
    ELSE IF w.ev[eventId + 1].isFinalized THEN "Event is finalized"
    ELSE IF w.up[eventId][sender].exists THEN "Already submitted prediction for event"
    ELSE ""

RECURSIVE BatchLoop_StopsAtFailure(_, _, _, _, _)
\* the for loop leaving at the first failing item without reverting
BatchLoop_StopsAtFailure(w, sender, eventIds, prices, i) ==
    IF i > Len(eventIds) THEN [err |-> "", w |-> w]
    ELSE LET err == BatchItemErr(w, eventIds[i], sender)
         IN  IF err # "" THEN [err |-> "", w |-> w]
             ELSE BatchLoop_StopsAtFailure(
                      RecordPrediction(w, eventIds[i], sender,
                          FromExternal(ExternalInput(sender, prices[i]))),
                      sender, eventIds, prices, i + 1)

RECURSIVE BatchLoop_ChecksInitialStorage(_, _, _, _, _)
\* the for loop checking every item against the storage as it was before
\* the call
BatchLoop_ChecksInitialStorage(w, sender, eventIds, prices, i) ==
    IF i > Len(eventIds) THEN [err |-> "", w |-> w]
    ELSE LET err == BatchItemErr(World, eventIds[i], sender)
         IN  IF err # "" THEN [err |-> err, w |-> w]
             ELSE BatchLoop_ChecksInitialStorage(
                      RecordPrediction(w, eventIds[i], sender,
                          FromExternal(ExternalInput(sender, prices[i]))),
                      sender, eventIds, prices, i + 1)

RECURSIVE BatchLoop(_, _, _, _, _)
\* the for loop: the first failing item reverts the whole call
BatchLoop(w, sender, eventIds, prices, i) ==
    IF i > Len(eventIds) THEN [err |-> "", w |-> w]
    ELSE LET err == BatchItemErr(w, eventIds[i], sender)
         IN  IF err # "" THEN [err |-> err, w |-> w]
             ELSE BatchLoop(RecordPrediction(w, eventIds[i], sender,
                                FromExternal(ExternalInput(sender, prices[i]))),
                            sender, eventIds, prices, i + 1)

\* the array requires without the ceiling on the batch size
BatchArgsErr_NoCeiling(nEventIds, nPrices, nProofs) ==
    IF nEventIds # nPrices THEN "Array length mismatch"
    ELSE IF nEventIds # nProofs THEN "Array length mismatch"
    ELSE IF ~(nEventIds > 0) THEN "Cannot submit empty batch"
    ELSE ""

BatchArgsErr(nEventIds, nPrices, nProofs) ==
    IF nEventIds # nPrices THEN "Array length mismatch"
    ELSE IF nEventIds # nProofs THEN "Array length mismatch"
    ELSE IF ~(nEventIds > 0) THEN "Cannot submit empty batch"
    ELSE IF ~(nEventIds <= MAX_BATCH) THEN "Batch size too large"
    ELSE ""

BatchErr(sender, eventIds, prices, nProofs) ==
    IF BatchArgsErr(Len(eventIds), Len(prices), nProofs) # ""
    THEN BatchArgsErr(Len(eventIds), Len(prices), nProofs)
    ELSE BatchLoop(World, sender, eventIds, prices, 1).err

SubmitBatchPredictions(sender, eventIds, prices, nProofs) ==
    LET w == BatchLoop(World, sender, eventIds, prices, 1).w
    IN  /\ BatchErr(sender, eventIds, prices, nProofs) = ""
        /\ predictionEvents' = w.ev
        /\ userPredictions' = w.up
        /\ fheACL' = w.acl
        /\ UNCHANGED <<now, requestToEvent, decryptionRequests,
                       encryptedStorages, userEncryptedStorages>>

----------------------------------------------------------------------------
(* endPredictionEvent / setActualPrice *)

\* endPredictionEvent without the require on isActive
EndErr_NoActiveCheck(eventId) ==
    IF eventExists(eventId) # "" THEN eventExists(eventId)
    ELSE IF ~(now >= Ev(eventId).endTime) THEN "Event has not ended yet"
    ELSE ""

\* endPredictionEvent reporting a missing event as an inactive one
EndErr_MissingIsInactive(eventId) ==
    IF eventExists(eventId) # "" THEN "Event not active"
    ELSE IF ~Ev(eventId).isActive THEN "Event not active"
    ELSE IF ~(now >= Ev(eventId).endTime) THEN "Event has not ended yet"
    ELSE ""

\* endPredictionEvent requiring block.timestamp > endTime
EndErr_StrictlyAfter(eventId) ==
    IF eventExists(eventId) # "" THEN eventExists(eventId)
    ELSE IF ~Ev(eventId).isActive THEN "Event not active"
    ELSE IF ~(now > Ev(eventId).endTime) THEN "Event has not ended yet"
    ELSE ""

EndErr(eventId) ==
    IF eventExists(eventId) # "" THEN eventExists(eventId)
    ELSE IF ~Ev(eventId).isActive THEN "Event not active"
    ELSE IF ~(now >= Ev(eventId).endTime) THEN "Event has not ended yet"
    ELSE ""

\* endPredictionEvent also clearing the count of predictions
EndPredictionEvent_ResetsCount(sender, eventId) ==
    /\ EndErr(eventId) = ""
    /\ predictionEvents' = [predictionEvents EXCEPT ![eventId + 1] =
            [@ EXCEPT !.isActive = FALSE, !.totalPredictions = 0]]
    /\ UNCHANGED <<now, userPredictions, requestToEvent, fheACL, decryptionRequests,
                   encryptedStorages, userEncryptedStorages>>

EndPredictionEvent(sender, eventId) ==
    /\ EndErr(eventId) = ""
    /\ predictionEvents' = [predictionEvents EXCEPT ![eventId + 1].isActive = FALSE]
    /\ UNCHANGED <<now, userPredictions, requestToEvent, fheACL, decryptionRequests,
                   encryptedStorages, userEncryptedStorages>>

Prices == {0, 510000}

\* setActualPrice without the require on _actualPrice > 0
SetActualPriceErr_NoPositiveCheck(eventId, sender, actualPrice) ==
    IF eventExists(eventId) # "" THEN eventExists(eventId)
    ELSE IF onlyAdmin(eventId, sender) # "" THEN onlyAdmin(eventId, sender)
    ELSE IF ~(now >= Ev(eventId).targetDate) THEN "Target date not reached"
    ELSE ""

SetActualPriceErr(eventId, sender, actualPrice) ==
    IF eventExists(eventId) # "" THEN eventExists(eventId)
    ELSE IF onlyAdmin(eventId, sender) # "" THEN onlyAdmin(eventId, sender)
    ELSE IF ~(now >= Ev(eventId).targetDate) THEN "Target date not reached"
    ELSE IF ~(actualPrice > 0) THEN "Actual price must be greater than 0"
    ELSE ""

\* setActualPrice also blanking the title of the event
SetActualPrice_BlanksTitle(sender, eventId, actualPrice) ==
    /\ SetActualPriceErr(eventId, sender, actualPrice) = ""
    /\ predictionEvents' = [predictionEvents EXCEPT ![eventId + 1] =
            [@ EXCEPT !.actualPrice = actualPrice, !.title = ""]]
    /\ UNCHANGED <<now, userPredictions, requestToEvent, fheACL, decryptionRequests,
                   encryptedStorages, userEncryptedStorages>>

SetActualPrice(sender, eventId, actualPrice) ==
    /\ SetActualPriceErr(eventId, sender, actualPrice) = ""
    /\ predictionEvents' = [predictionEvents EXCEPT ![eventId + 1].actualPrice = actualPrice]
    /\ UNCHANGED <<now, userPredictions, requestToEvent, fheACL, decryptionRequests,
                   encryptedStorages, userEncryptedStorages>>

----------------------------------------------------------------------------
(* finalizePredictionEvent / decryptionCallback *)

\* finalizePredictionEvent also requiring the actual price to be set
FinalizeErr_RequiresActualPrice(eventId, sender) ==
    IF eventExists(eventId) # "" THEN eventExists(eventId)
    ELSE IF onlyAdmin(eventId, sender) # "" THEN onlyAdmin(eventId, sender)
    ELSE IF Ev(eventId).isActive THEN "Event still active"
    ELSE IF Ev(eventId).isFinalized THEN "Event already finalized"
    ELSE IF ~(Ev(eventId).totalPredictions > 0) THEN "No predictions to finalize"
    ELSE IF ~(Ev(eventId).actualPrice > 0) THEN "Actual price not set"
    ELSE ""

\* finalizePredictionEvent without the require on totalPredictions
FinalizeErr_NoCountCheck(eventId, sender) ==
    IF eventExists(eventId) # "" THEN eventExists(eventId)
    ELSE IF onlyAdmin(eventId, sender) # "" THEN onlyAdmin(eventId, sender)
    ELSE IF Ev(eventId).isActive THEN "Event still active"
    ELSE IF Ev(eventId).isFinalized THEN "Event already finalized"
    ELSE ""

\* finalizePredictionEvent without the require on !isActive
FinalizeErr_AllowsActive(eventId, sender) ==
    IF eventExists(eventId) # "" THEN eventExists(eventId)
    ELSE IF onlyAdmin(eventId, sender) # "" THEN onlyAdmin(eventId, sender)
    ELSE IF Ev(eventId).isFinalized THEN "Event already finalized"
    ELSE IF ~(Ev(eventId).totalPredictions > 0) THEN "No predictions to finalize"
    ELSE ""

FinalizeErr(eventId, sender) ==
    IF eventExists(eventId) # "" THEN eventExists(eventId)
    ELSE IF onlyAdmin(eventId, sender) # "" THEN onlyAdmin(eventId, sender)
    ELSE IF Ev(eventId).isActive THEN "Event still active"
    ELSE IF Ev(eventId).isFinalized THEN "Event already finalized"
    ELSE IF ~(Ev(eventId).totalPredictions > 0) THEN "No predictions to finalize"
    ELSE ""

\* FHE.requestDecryption: the request id is the coprocessor's request counter
NextRequestId == Len(decryptionRequests)

FinalizePredictionEvent(sender, eventId) ==
    LET requestId == NextRequestId
    IN  /\ FinalizeErr(eventId, sender) = ""
        /\ decryptionRequests' = Append(decryptionRequests,
                [handle |-> Ev(eventId).encryptedPriceSum,
                 selector |-> "decryptionCallback"])
        /\ requestToEvent' = [requestToEvent EXCEPT ![requestId] = eventId]
        /\ UNCHANGED <<now, predictionEvents, userPredictions, fheACL,
                       encryptedStorages, userEncryptedStorages>>

\* decryptionCallback without the require on isActive
CallbackErr_NoActiveCheck(requestId, cleartexts) ==
    LET eventId == requestToEvent[requestId]
    IN  IF ~(eventId < Len(predictionEvents)) THEN "Panic(0x32)"
        ELSE IF Ev(eventId).isFinalized THEN "Event already finalized"
        ELSE IF ~(Len(cleartexts) >= 4) THEN "Invalid cleartexts length"
        ELSE IF ToU32(Ev(eventId).totalPredictions) = U32Zero THEN "Panic(0x12)"
        ELSE ""

\* decryptionCallback making its state checks on predictionEvents[requestId]
\* instead of the correlated event
CallbackErr_ChecksRequestId(requestId, cleartexts) ==
    LET eventId == requestToEvent[requestId]
    IN  IF ~(eventId < Len(predictionEvents)) \/ ~(requestId < Len(predictionEvents))
        THEN "Panic(0x32)"
        ELSE IF Ev(requestId).isFinalized THEN "Event already finalized"
        ELSE IF Ev(requestId).isActive THEN "Event still active"
        ELSE IF ~(Len(cleartexts) >= 4) THEN "Invalid cleartexts length"
        ELSE IF ToU32(Ev(eventId).totalPredictions) = U32Zero THEN "Panic(0x12)"
        ELSE ""

\* decryptionCallback without the require on isFinalized
CallbackErr_NoFinalizedCheck(requestId, cleartexts) ==
    LET eventId == requestToEvent[requestId]
    IN  IF ~(eventId < Len(predictionEvents)) THEN "Panic(0x32)"
        ELSE IF Ev(eventId).isActive THEN "Event still active"
        ELSE IF ~(Len(cleartexts) >= 4) THEN "Invalid cleartexts length"
        ELSE IF ToU32(Ev(eventId).totalPredictions) = U32Zero THEN "Panic(0x12)"
        ELSE ""

\* decryptionCallback also requiring the actual price to be set
CallbackErr_RequiresActualPrice(requestId, cleartexts) ==
    LET eventId == requestToEvent[requestId]
    IN  IF ~(eventId < Len(predictionEvents)) THEN "Panic(0x32)"
        ELSE IF Ev(eventId).isFinalized THEN "Event already finalized"
        ELSE IF Ev(eventId).isActive THEN "Event still active"
        ELSE IF ~(Ev(eventId).actualPrice > 0) THEN "Actual price not set"
        ELSE IF ~(Len(cleartexts) >= 4) THEN "Invalid cleartexts length"
        ELSE IF ToU32(Ev(eventId).totalPredictions) = U32Zero THEN "Panic(0x12)"
        ELSE ""

CallbackErr(requestId, cleartexts) ==
    LET eventId == requestToEvent[requestId]
    IN  IF ~(eventId < Len(predictionEvents)) THEN "Panic(0x32)"
        ELSE IF Ev(eventId).isFinalized THEN "Event already finalized"
        ELSE IF Ev(eventId).isActive THEN "Event still active"
        ELSE IF ~(Len(cleartexts) >= 4) THEN "Invalid cleartexts length"
        ELSE IF ToU32(Ev(eventId).totalPredictions) = U32Zero THEN "Panic(0x12)"
        ELSE ""

AveragePrice(eventId, cleartexts) ==
    U32Div(ParseU32(cleartexts), ToU32(Ev(eventId).totalPredictions))

\* decryptionCallback also clearing the encrypted sum it has averaged
DecryptionCallback_ClearsSum(sender, requestId, cleartexts) ==
    LET eventId == requestToEvent[requestId]
    IN  /\ CallbackErr(requestId, cleartexts) = ""
        /\ predictionEvents' = [predictionEvents EXCEPT ![eventId + 1] =
                [@ EXCEPT !.decryptedAveragePrice = AveragePrice(eventId, cleartexts),
                          !.isFinalized = TRUE,
                          !.encryptedPriceSum = NullHandle]]
        /\ UNCHANGED <<now, userPredictions, requestToEvent, fheACL, decryptionRequests,
                       encryptedStorages, userEncryptedStorages>>

\* decryptionCallback finalizing an event without predictions with average 0
\* instead of failing on the division
DecryptionCallback_FinalizesEmpty(sender, requestId, cleartexts) ==
    LET eventId == requestToEvent[requestId]
        empty == CallbackErr(requestId, cleartexts) = "Panic(0x12)"
    IN  /\ CallbackErr(requestId, cleartexts) \in {"", "Panic(0x12)"}
        /\ predictionEvents' = [predictionEvents EXCEPT ![eventId + 1] =
                [@ EXCEPT !.decryptedAveragePrice =
                              IF empty THEN U32Zero ELSE AveragePrice(eventId, cleartexts),
                          !.isFinalized = TRUE]]
        /\ UNCHANGED <<now, userPredictions, requestToEvent, fheACL, decryptionRequests,
                       encryptedStorages, userEncryptedStorages>>

DecryptionCallback(sender, requestId, cleartexts) ==
    LET eventId == requestToEvent[requestId]
    IN  /\ CallbackErr(requestId, cleartexts) = ""
        /\ predictionEvents' = [predictionEvents EXCEPT ![eventId + 1] =
                [@ EXCEPT !.decryptedAveragePrice = AveragePrice(eventId, cleartexts),
                          !.isFinalized = TRUE]]
        /\ UNCHANGED <<now, userPredictions, requestToEvent, fheACL, decryptionRequests,
                       encryptedStorages, userEncryptedStorages>>

\* what the decryption oracle sends back for an issued request
OraclePayload(requestId) ==
    EncodeU32(Cleartext(decryptionRequests[requestId + 1].handle))

\* payloads a caller of the public callback may pass
ForgedPayloads == {<<>>, <<0, 0, 0, 7>>}

Payloads == ForgedPayloads \cup {OraclePayload(r) : r \in 0 .. (NextRequestId - 1)}

ORACLE == "oracle"

----------------------------------------------------------------------------
(* storeEncryptedValue / retrieveEncryptedValue / valueDecryptionCallback / *)
(* transferEncryptedStorage.  What the FHE library answers to isInitialized, *)
(* verifyProof and isNullified is an input of the call.                     *)

\* the external handle externalEuint32.wrap(0)
ZeroExternal == <<>>

ZERO_ADDRESS == "0x0"

\* the answers of the library: FHE.isInitialized(), FHE.verifyProof(inputProof)
StoreErr(encryptedValue, fheInitialized, proofValid) ==
    IF ~fheInitialized THEN "FHE not initialized"
    ELSE IF ~proofValid THEN "Invalid input proof"
    ELSE IF encryptedValue = ZeroExternal THEN "Value cannot be zero"
    ELSE ""

StoreEncryptedValue(sender, encryptedValue, fheInitialized, proofValid) ==
    LET value == FromExternal(encryptedValue)
    IN  /\ StoreErr(encryptedValue, fheInitialized, proofValid) = ""
        /\ encryptedStorages' = Append(encryptedStorages,
                [storedValue |-> value, owner |-> sender,
                 timestamp |-> now, isEncrypted |-> TRUE])
        /\ userEncryptedStorages' =
               [userEncryptedStorages EXCEPT
                   ![sender] = Append(@, Len(encryptedStorages))]
        /\ fheACL' = fheACL \cup {<<value, CONTRACT>>, <<value, sender>>}
        /\ UNCHANGED <<now, predictionEvents, userPredictions, requestToEvent,
                       decryptionRequests>>

\* the answers of the library: FHE.isInitialized(), FHE.isNullified(storedValue)
RetrieveErr(storageId, sender, fheInitialized, nullified) ==
    IF ~(storageId < Len(encryptedStorages)) THEN "Storage does not exist"
    ELSE IF encryptedStorages[storageId + 1].owner # sender THEN "Not the owner"
    ELSE IF ~encryptedStorages[storageId + 1].isEncrypted THEN "Value not encrypted"
    ELSE IF ~(encryptedStorages[storageId + 1].timestamp > 0)
         THEN "Invalid storage timestamp"
    ELSE IF ~fheInitialized THEN "FHE context not initialized"
    ELSE IF nullified THEN "Value has been nullified"
    ELSE IF requestToEvent[NextRequestId] # 0 THEN "Request ID collision detected"
    ELSE ""

RetrieveEncryptedValue(sender, storageId, fheInitialized, nullified) ==
    LET requestId == NextRequestId
    IN  /\ RetrieveErr(storageId, sender, fheInitialized, nullified) = ""
        /\ decryptionRequests' = Append(decryptionRequests,
                [handle |-> encryptedStorages[storageId + 1].storedValue,
                 selector |-> "valueDecryptionCallback"])
        /\ requestToEvent' = [requestToEvent EXCEPT ![requestId] = storageId]
        /\ UNCHANGED <<now, predictionEvents, userPredictions, fheACL,
                       encryptedStorages, userEncryptedStorages>>

ValueCallbackErr(requestId, cleartexts) ==
    LET storageId == requestToEvent[requestId]
    IN  IF ~(storageId < Len(encryptedStorages)) THEN "Panic(0x32)"
        ELSE IF ~(Len(cleartexts) >= 4) THEN "Invalid cleartexts length"
        ELSE ""

\* valueDecryptionCallback only emits ValueRetrieved
ValueDecryptionCallback(sender, requestId, cleartexts) ==
    /\ ValueCallbackErr(requestId, cleartexts) = ""
    /\ UNCHANGED <<now, storage>>

GetUserStorageCount(user) == Len(userEncryptedStorages[user])

TransferErr(storageId, sender, to) ==
    IF to = ZERO_ADDRESS THEN "Cannot transfer to zero address"
    ELSE IF ~(storageId < Len(encryptedStorages)) THEN "Storage does not exist"
    ELSE IF encryptedStorages[storageId + 1].owner # sender THEN "Not the owner"
    ELSE ""

\* the loop over previousOwnerStorages: the first entry equal to storageId is
\* overwritten with the last entry and the array is popped
SwapAndPop(ids, storageId) ==
    IF \E i \in 1 .. Len(ids) : ids[i] = storageId
    THEN LET i == CHOOSE k \in 1 .. Len(ids) :
                      /\ ids[k] = storageId
                      /\ \A j \in 1 .. (k - 1) : ids[j] # storageId
         IN  SubSeq([ids EXCEPT ![i] = ids[Len(ids)]], 1, Len(ids) - 1)
    ELSE ids

TransferEncryptedStorage(sender, storageId, to) ==
    /\ TransferErr(storageId, sender, to) = ""
    /\ encryptedStorages' = [encryptedStorages EXCEPT ![storageId + 1].owner = to]
    /\ LET popped == [userEncryptedStorages EXCEPT
                         ![sender] = SwapAndPop(@, storageId)]
       IN  userEncryptedStorages' = [popped EXCEPT ![to] = Append(@, storageId)]
    /\ UNCHANGED <<now, predictionEvents, userPredictions, requestToEvent, fheACL,
                   decryptionRequests>>

----------------------------------------------------------------------------
(* view functions: the revert message, and the value returned when there   *)
(* is none                                                                  *)

GetEncryptedPriceSumErr(eventId) == eventExists(eventId)

GetEncryptedPriceSum(eventId) == Ev(eventId).encryptedPriceSum

\* getDecryptedAveragePrice without the require on isFinalized
GetDecryptedAveragePriceErr_NoFinalizedCheck(eventId) == eventExists(eventId)

GetDecryptedAveragePriceErr(eventId) ==
    IF eventExists(eventId) # "" THEN eventExists(eventId)
    ELSE IF ~Ev(eventId).isFinalized THEN "Event not finalized"
    ELSE ""

GetDecryptedAveragePrice(eventId) == Ev(eventId).decryptedAveragePrice

GetPredictionEventErr(eventId) == eventExists(eventId)

GetPredictionEvent(eventId) ==
    LET event_ == Ev(eventId)
    IN  <<event_.title, event_.tokenType, event_.targetDate, event_.endTime,
          event_.isActive, event_.isFinalized, event_.admin, event_.totalPredictions,
          event_.actualPrice, event_.decryptedAveragePrice>>

GetEventCount == Len(predictionEvents)

\* getPredictionStatistics: block.timestamp - targetDate is checked uint256
\* arithmetic and is computed only when the event has predictions
GetPredictionStatisticsErr(eventId) ==
    IF eventExists(eventId) # "" THEN eventExists(eventId)
    ELSE IF Ev(eventId).totalPredictions > 0 /\ now < Ev(eventId).targetDate
         THEN "Panic(0x11)"
    ELSE ""

\* <<totalPredictions, activePredictions, finalizedPredictions,
\*   averagePredictionAge, uniquePredictors>>
GetPredictionStatistics(eventId) ==
    LET event_ == Ev(eventId)
        finalizedCount == IF event_.isFinalized THEN event_.totalPredictions ELSE 0
        activeCount == IF ~event_.isFinalized /\ event_.isActive
                       THEN event_.totalPredictions ELSE 0
        totalAge == (now - event_.targetDate) * event_.totalPredictions
        averagePredictionAge == IF event_.totalPredictions > 0
                                THEN totalAge \div event_.totalPredictions ELSE 0
    IN  <<event_.totalPredictions, activeCount, finalizedCount, averagePredictionAge,
          event_.totalPredictions>>

HasUserPredicted(eventId, user) == userPredictions[eventId][user].exists

----------------------------------------------------------------------------
(* inputs of submitBatchPredictions *)

MaxBatchLen == 2

SeqsUpTo(S, n) == UNION {[1 .. k -> S] : k \in 0 .. n}

\* batches <<eventIds, prices, number of proofs>>: every batch of up to
\* MaxBatchLen items with arrays of equal length, and two with arrays that differ
BatchInputs ==
    UNION {{<<ids, ps, k>> : ids \in [1 .. k -> EventIdArgs], ps \in [1 .. k -> ClearValues]} :
           k \in 0 .. MaxBatchLen}
    \cup {<<<<0>>, <<>>, 1>>, <<<<0>>, <<CHOOSE v \in ClearValues : TRUE>>, 0>>}

----------------------------------------------------------------------------
(* block.timestamp moves forward between transactions *)

AdvanceTime ==
    /\ \E t \in TimePoints : t > now /\ now' = t
    /\ UNCHANGED storage

----------------------------------------------------------------------------
(* Spec: the storage transitions.  A call that reverts changes nothing, so  *)
(* only the calls that succeed are steps.                                   *)

Next ==
    \/ /\ Len(predictionEvents) < MaxEvents
       /\ \E s \in Creators, ti \in Titles, tk \in TokenTypes, td \in TimePoints, d \in Durations :
             CreatePredictionEvent(s, ti, tk, td, d)
       /\ UNCHANGED lastCall
    \/ /\ \E s \in Users, e \in EventIdArgs, v \in ClearValues : SubmitPrediction(s, e, v)
       /\ UNCHANGED lastCall
    \/ /\ \E s \in Users, b \in BatchInputs : SubmitBatchPredictions(s, b[1], b[2], b[3])
       /\ UNCHANGED lastCall
    \/ /\ \E s \in Users, e \in EventIdArgs : EndPredictionEvent(s, e)
       /\ UNCHANGED lastCall
    \/ /\ \E s \in Users, e \in EventIdArgs, p \in Prices : SetActualPrice(s, e, p)
       /\ UNCHANGED lastCall
    \/ /\ NextRequestId < MaxRequests
       /\ \E s \in Users, e \in EventIdArgs : FinalizePredictionEvent(s, e)
       /\ UNCHANGED lastCall
    \/ /\ \E r \in RequestIds, c \in Payloads : DecryptionCallback(ORACLE, r, c)
       /\ UNCHANGED lastCall
    \/ AdvanceTime /\ UNCHANGED lastCall

Spec == Init /\ [][Next]_vars

----------------------------------------------------------------------------
(* SpecCalls: every call is a step that records the call and its outcome;  *)
(* a call that reverts records the revert message and changes nothing else. *)

CallMaxEvents == 1
CallEventIdArgs == 0 .. CallMaxEvents
CallValues == {U32(32768, 0)}
CallBatchInputs ==
    {b \in BatchInputs : /\ \A i \in 1 .. Len(b[1]) : b[1][i] \in CallEventIdArgs
                         /\ \A i \in 1 .. Len(b[2]) : b[2][i] \in CallValues}

CHAIN == "chain"

Reverted == UNCHANGED <<now, storage>>

\* the step of a call: its effect when err = "", a revert otherwise
Outcome(op, caller, id, arg, err, effect) ==
    /\ lastCall' = Call(op, caller, id, arg, err)
    /\ IF err = "" THEN effect ELSE Reverted

NextCalls ==
    \/ /\ Len(predictionEvents) < CallMaxEvents
       /\ \E s \in Users, ti \in Titles, tk \in TokenTypes, td \in TimePoints, d \in Durations :
             Outcome("createPredictionEvent", s, Len(predictionEvents), <<>>,
                     CreateErr(td, d), CreatePredictionEvent(s, ti, tk, td, d))
    \/ \E s \in Users, e \in CallEventIdArgs, v \in CallValues :
          Outcome("submitPrediction", s, e, <<>>, SubmitErr(e, s), SubmitPrediction(s, e, v))
    \/ \E s \in Users, b \in CallBatchInputs :
          Outcome("submitBatchPredictions", s, 0, b[1], BatchErr(s, b[1], b[2], b[3]),
                  SubmitBatchPredictions(s, b[1], b[2], b[3]))
    \/ \E s \in Users, e \in CallEventIdArgs :
          Outcome("endPredictionEvent", s, e, <<>>, EndErr(e), EndPredictionEvent(s, e))
    \/ \E s \in Users, e \in CallEventIdArgs, p \in Prices :
          Outcome("setActualPrice", s, e, <<p>>, SetActualPriceErr(e, s, p),
                  SetActualPrice(s, e, p))
    \/ \E s \in Users, e \in CallEventIdArgs :
          /\ FinalizeErr(e, s) = "" => NextRequestId < MaxRequests
          /\ Outcome("finalizePredictionEvent", s, e, <<>>, FinalizeErr(e, s),
                     FinalizePredictionEvent(s, e))
    \/ \E r \in RequestIds, c \in Payloads :
          Outcome("decryptionCallback", ORACLE, r, c, CallbackErr(r, c),
                  DecryptionCallback(ORACLE, r, c))
    \/ /\ AdvanceTime
       /\ lastCall' = Call("advanceTime", CHAIN, 0, <<>>, "")

SpecCalls == Init /\ [][NextCalls]_vars

----------------------------------------------------------------------------
(* SpecLive: the storage transitions on one event, with an oracle that does *)
(* not withhold an answer for ever:                                         *)
(* the callback of an issued request, carrying the decryption of the        *)
(* requested handle, is eventually delivered if it stays deliverable.       *)

OracleDelivers(r) ==
    /\ r < NextRequestId
    /\ DecryptionCallback(ORACLE, r, OraclePayload(r))
    /\ UNCHANGED lastCall

\* the transitions of Spec over the inputs of SpecCalls (one event)
NextLive ==
    \/ /\ Len(predictionEvents) < CallMaxEvents
       /\ \E s \in Users, ti \in Titles, tk \in TokenTypes, td \in TimePoints, d \in Durations :
             CreatePredictionEvent(s, ti, tk, td, d)
       /\ UNCHANGED lastCall
    \/ /\ \E s \in Users, e \in CallEventIdArgs, v \in ClearValues : SubmitPrediction(s, e, v)
       /\ UNCHANGED lastCall
    \/ /\ \E s \in Users, b \in CallBatchInputs : SubmitBatchPredictions(s, b[1], b[2], b[3])
       /\ UNCHANGED lastCall
    \/ /\ \E s \in Users, e \in CallEventIdArgs : EndPredictionEvent(s, e)
       /\ UNCHANGED lastCall
    \/ /\ \E s \in Users, e \in CallEventIdArgs, p \in Prices : SetActualPrice(s, e, p)
       /\ UNCHANGED lastCall
    \/ /\ NextRequestId < MaxRequests
       /\ \E s \in Users, e \in CallEventIdArgs : FinalizePredictionEvent(s, e)
       /\ UNCHANGED lastCall
    \/ /\ \E r \in RequestIds, c \in Payloads : DecryptionCallback(ORACLE, r, c)
       /\ UNCHANGED lastCall
    \/ AdvanceTime /\ UNCHANGED lastCall

SpecLive == Init /\ [][NextLive]_vars /\ \A r \in RequestIds : WF_vars(OracleDelivers(r))

----------------------------------------------------------------------------
(* SpecBatchArgs: the calls of submitBatchPredictions over the lengths of    *)
(* its three arrays, up to one past the ceiling on the batch size.  Here the *)
(* call record of a batch carries the three lengths                          *)
(* <<_eventIds.length, _encryptedPrices.length, _inputProofs.length>>.       *)

MaxArrayLen == 11

\* lengths of the other two arrays tried against n event ids
LensNear(n) == {0, n - 1, n, n + 1, MaxArrayLen} \cap (0 .. MaxArrayLen)

\* an array of n copies of x
Filled(n, x) == [i \in 1 .. n |-> x]

NextBatchArgs ==
    \/ /\ Len(predictionEvents) < CallMaxEvents
       /\ \E s \in Users, ti \in Titles, tk \in TokenTypes, td \in TimePoints, d \in Durations :
             Outcome("createPredictionEvent", s, Len(predictionEvents), <<>>,
                     CreateErr(td, d), CreatePredictionEvent(s, ti, tk, td, d))
    \/ \E s \in Users, nIds \in 0 .. MaxArrayLen, v \in CallValues :
          \E nPrices \in LensNear(nIds), nProofs \in LensNear(nIds) :
             Outcome("submitBatchPredictions", s, 0, <<nIds, nPrices, nProofs>>,
                     BatchErr(s, Filled(nIds, 0), Filled(nPrices, v), nProofs),
                     SubmitBatchPredictions(s, Filled(nIds, 0), Filled(nPrices, v), nProofs))
    \/ /\ AdvanceTime
       /\ lastCall' = Call("advanceTime", CHAIN, 0, <<>>, "")

SpecBatchArgs == Init /\ [][NextBatchArgs]_vars

----------------------------------------------------------------------------
(* SpecCreate: the calls of createPredictionEvent over titles (the empty     *)
(* one included), token types, target dates and durations, with the          *)
(* submissions of one participant in between.  Here the call record of a     *)
(* create carries <<_title, _tokenType, _targetDate, _durationInHours>> and  *)
(* its id is the value the call returns.                                     *)

\* <<_title, _tokenType>> of the events created
CreateProfiles == {<<"", "BTC">>, <<"BTC Price Prediction", "ETH">>}
CreateTargets == {DEPLOY_TIME, DEPLOY_TIME + HOUR, DEPLOY_TIME + 2 * HOUR}
CreateDurations == {0, 1, 2}

NextCreate ==
    \/ \E s \in Users, pr \in CreateProfiles, td \in CreateTargets, d \in CreateDurations :
          /\ CreateErr(td, d) = "" => Len(predictionEvents) < MaxEvents
          /\ Outcome("createPredictionEvent", s, Len(predictionEvents),
                     <<pr[1], pr[2], td, d>>, CreateErr(td, d),
                     CreatePredictionEvent(s, pr[1], pr[2], td, d))
    \/ \E e \in EventIdArgs, v \in CallValues :
          Outcome("submitPrediction", "bob", e, <<>>, SubmitErr(e, "bob"),
                  SubmitPrediction("bob", e, v))
    \/ /\ AdvanceTime
       /\ lastCall' = Call("advanceTime", CHAIN, 0, <<>>, "")

SpecCreate == Init /\ [][NextCreate]_vars

----------------------------------------------------------------------------
(* SpecStorage: the storage transitions on two events together with the     *)
(* encrypted value store, which shares _requestToEvent and the request      *)
(* counter with the finalization.  As in Spec only the calls that succeed   *)
(* are steps.                                                               *)

MaxStorages == 2
StorageIdArgs == 0 .. MaxStorages
StoreInputs == {ZeroExternal} \cup {ExternalInput("bob", v) : v \in CallValues}
Recipients == Users \cup {ZERO_ADDRESS}
StorageBatchInputs ==
    {b \in BatchInputs : \A i \in 1 .. Len(b[2]) : b[2][i] \in CallValues}

NextStorage ==
    \/ /\ Len(predictionEvents) < MaxEvents
       /\ \E s \in Creators, ti \in Titles, tk \in TokenTypes, d \in Durations :
             CreatePredictionEvent(s, ti, tk, DEPLOY_TIME + HOUR, d)
       /\ UNCHANGED lastCall
    \/ /\ \E e \in EventIdArgs, v \in CallValues : SubmitPrediction("bob", e, v)
       /\ UNCHANGED lastCall
    \/ /\ \E b \in StorageBatchInputs : SubmitBatchPredictions("bob", b[1], b[2], b[3])
       /\ UNCHANGED lastCall
    \/ /\ \E s \in Users, e \in EventIdArgs : EndPredictionEvent(s, e)
       /\ UNCHANGED lastCall
    \/ /\ \E s \in Users, e \in EventIdArgs, p \in Prices : SetActualPrice(s, e, p)
       /\ UNCHANGED lastCall
    \/ /\ NextRequestId < MaxRequests
       /\ \E s \in Users, e \in EventIdArgs : FinalizePredictionEvent(s, e)
       /\ UNCHANGED lastCall
    \/ /\ \E r \in RequestIds, c \in Payloads : DecryptionCallback(ORACLE, r, c)
       /\ UNCHANGED lastCall
    \/ /\ Len(encryptedStorages) < MaxStorages
       /\ \E x \in StoreInputs, fheInitialized \in BOOLEAN, proofValid \in BOOLEAN :
             StoreEncryptedValue("bob", x, fheInitialized, proofValid)
       /\ UNCHANGED lastCall
    \/ /\ NextRequestId < MaxRequests
       /\ \E s \in Users, i \in StorageIdArgs, fheInitialized \in BOOLEAN, nullified \in BOOLEAN :
             RetrieveEncryptedValue(s, i, fheInitialized, nullified)
       /\ UNCHANGED lastCall
    \/ /\ \E s \in Users, i \in StorageIdArgs, to \in Recipients :
             TransferEncryptedStorage(s, i, to)
       /\ UNCHANGED lastCall
    \/ /\ \E r \in RequestIds, c \in Payloads : ValueDecryptionCallback(ORACLE, r, c)
       /\ UNCHANGED lastCall
    \/ AdvanceTime /\ UNCHANGED lastCall

SpecStorage == Init /\ [][NextStorage]_vars

----------------------------------------------------------------------------
(* SpecWindow: create, submit and end on one event, with block timestamps   *)
(* before, at and after the end time of the event.                          *)

WindowTimes == {DEPLOY_TIME, DEPLOY_TIME + HOUR, DEPLOY_TIME + 2 * HOUR}

NextWindow ==
    \/ /\ Len(predictionEvents) < CallMaxEvents
       /\ \E s \in Users, ti \in Titles, tk \in TokenTypes, td \in WindowTimes, d \in Durations :
             Outcome("createPredictionEvent", s, Len(predictionEvents), <<>>,
                     CreateErr(td, d), CreatePredictionEvent(s, ti, tk, td, d))
    \/ \E s \in Users, e \in CallEventIdArgs, v \in CallValues :
          Outcome("submitPrediction", s, e, <<>>, SubmitErr(e, s), SubmitPrediction(s, e, v))
    \/ \E s \in Users, e \in CallEventIdArgs :
          Outcome("endPredictionEvent", s, e, <<>>, EndErr(e), EndPredictionEvent(s, e))
    \/ /\ \E t \in WindowTimes : t > now /\ now' = t
       /\ UNCHANGED storage
       /\ lastCall' = Call("advanceTime", CHAIN, 0, <<>>, "")

SpecWindow == Init /\ [][NextWindow]_vars

----------------------------------------------------------------------------
(* Vocabulary of the properties *)

\* the error kind of a revert message
ErrKind(msg) ==
    CASE msg = "" -> "Ok"
      [] msg = "Event does not exist" -> "NotFound"
      [] msg = "Only admin can perform this action" -> "PermissionDenied"
      [] msg \in {"Already submitted prediction",
                  "Already submitted prediction for event"} -> "DuplicateSubmission"
      [] msg \in {"Target date must be in the future", "Duration must be greater than 0",
                  "Actual price must be greater than 0", "Array length mismatch",
                  "Cannot submit empty batch", "Batch size too large",
                  "Invalid cleartexts length"} -> "InvalidParameter"
      [] msg \in {"Event is not active", "Event has ended", "Event is finalized",
                  "Event not active", "Event has not ended yet", "Target date not reached",
                  "Event still active", "Event already finalized",
                  "No predictions to finalize", "Event not finalized"} -> "InvalidState"
      [] OTHER -> "Panic"

\* the reason tag of a revert message of the eventActive checks
ReasonTag(msg) ==
    CASE msg = "Event is not active" -> "NotActive"
      [] msg = "Event has ended" -> "Expired"
      [] msg = "Event is finalized" -> "AlreadyFinalized"
      [] OTHER -> "None"

\* the revert message of submitPrediction called on the storage w
SubmitErrIn(w, eventId, sender) ==
    IF ~(eventId < Len(w.ev)) THEN "Event does not exist"
    ELSE IF ~w.ev[eventId + 1].isActive THEN "Event is not active"
    ELSE IF ~(now < w.ev[eventId + 1].endTime) THEN "Event has ended"
    ELSE IF w.ev[eventId + 1].isFinalized THEN "Event is finalized"
    ELSE IF w.up[eventId][sender].exists THEN "Already submitted prediction"
    ELSE ""

RECURSIVE OneByOne(_, _, _, _, _)
\* submitPrediction called by sender for items i, i + 1, ... in array order at
\* the same block timestamp: whether all succeed, and the storage they leave
\* (a reverting call leaves the storage as it was and the next one is made)
OneByOne(w, sender, eventIds, prices, i) ==
    IF i > Len(eventIds) THEN [ok |-> TRUE, w |-> w]
    ELSE IF SubmitErrIn(w, eventIds[i], sender) # ""
         THEN [ok |-> FALSE, w |-> OneByOne(w, sender, eventIds, prices, i + 1).w]
    ELSE LET encryptedPrice == FromExternal(ExternalInput(sender, prices[i]))
             w1 == [ev |-> [w.ev EXCEPT
                       ![eventIds[i] + 1].encryptedPriceSum =
                           IF w.ev[eventIds[i] + 1].totalPredictions = 0
                           THEN encryptedPrice
                           ELSE FheAdd(w.ev[eventIds[i] + 1].encryptedPriceSum,
                                       encryptedPrice),
                       ![eventIds[i] + 1].totalPredictions = @ + 1],
                    up |-> [w.up EXCEPT ![eventIds[i]][sender] =
                       [encryptedPrice |-> encryptedPrice, timestamp |-> now,
                        exists |-> TRUE]],
                    acl |-> w.acl \cup
                       {<<IF w.ev[eventIds[i] + 1].totalPredictions = 0
                          THEN encryptedPrice
                          ELSE FheAdd(w.ev[eventIds[i] + 1].encryptedPriceSum,
                                      encryptedPrice), a>> :
                            a \in {CONTRACT, w.ev[eventIds[i] + 1].admin}}]
             rest == OneByOne(w1, sender, eventIds, prices, i + 1)
         IN  [ok |-> rest.ok, w |-> rest.w]

Existing == 0 .. (Len(predictionEvents) - 1)

\* the requests a finalize call has issued and recorded
Recorded == 0 .. (NextRequestId - 1)

Submitted(e) == {u \in Users : userPredictions[e][u].exists}

\* lastCall' is a submission attempt of p on e (a single submit or a batch item)
IsSubmitOn(c, p, e) ==
    /\ c.caller = p
    /\ \/ c.op = "submitPrediction" /\ c.id = e
       \/ c.op = "submitBatchPredictions" /\ \E i \in 1 .. Len(c.arg) : c.arg[i] = e

\* lastCall' is a submit of p on e, or a batch of p with well-formed arrays
\* whose first item names e
IsFirstSubmitOn(c, p, e) ==
    /\ c.caller = p
    /\ \/ c.op = "submitPrediction" /\ c.id = e
       \/ /\ c.op = "submitBatchPredictions"
          /\ c.err \notin {"Array length mismatch", "Cannot submit empty batch",
                           "Batch size too large"}
          /\ c.arg[1] = e

OpenForSubmission(e) ==
    Ev(e).isActive /\ now < Ev(e).endTime /\ ~Ev(e).isFinalized

\* what a reverted or rejected submission must leave alone
SubmissionStateUnchanged(e, p) ==
    /\ Ev(e)'.totalPredictions = Ev(e).totalPredictions
    /\ Ev(e)'.encryptedPriceSum = Ev(e).encryptedPriceSum
    /\ userPredictions'[e][p] = userPredictions[e][p]

RECURSIVE SumOver(_, _, _)
SumOver(S, e, limb) ==
    IF S = {} THEN 0
    ELSE LET u == CHOOSE x \in S : TRUE
             v == Cleartext(userPredictions[e][u].encryptedPrice)
         IN  (IF limb = "hi" THEN v.hi ELSE v.lo) + SumOver(S \ {u}, e, limb)

\* floor((v1 + ... + vn) / n) of the true (unbounded) sum of the values
\* submitted to e, as a uint32
TrueAverage(e) ==
    LET n == Cardinality(Submitted(e))
        hiSum == SumOver(Submitted(e), e, "hi")
        loSum == SumOver(Submitted(e), e, "lo")
        t == (hiSum % n) * B16 + loSum
    IN  U32((hiSum \div n) + ((t \div n) \div B16), (t \div n) % B16)

Phase(event_) ==
    IF event_.isFinalized THEN 2 ELSE IF event_.isActive THEN 0 ELSE 1

----------------------------------------------------------------------------
(* C1 *)

\* C1 as stated: once p has a stored submission on e, every later submit
\* of p on e (single or batch item) fails with DuplicateSubmission and leaves
\* the count, the sum and p's submission unchanged.
C1_AlwaysDuplicateSubmission ==
    [][\A e \in Existing, p \in Users :
          (userPredictions[e][p].exists /\ IsFirstSubmitOn(lastCall', p, e))
          => /\ ErrKind(lastCall'.err) = "DuplicateSubmission"
             /\ SubmissionStateUnchanged(e, p)]_vars

\* C1 amended: once p has a stored submission on e, every later submit of p
\* on e fails and leaves the count, the sum and p's submission unchanged; a
\* single submitPrediction fails with DuplicateSubmission while the event is
\* open for submissions and with InvalidState once it is not (the activity
\* checks come first), and a batch naming e fails as a whole.
C1_ResubmissionFails ==
    [][\A e \in Existing, p \in Users :
          (userPredictions[e][p].exists /\ IsSubmitOn(lastCall', p, e))
          => /\ lastCall'.err # ""
             /\ lastCall'.op = "submitPrediction" =>
                  ErrKind(lastCall'.err) =
                     IF OpenForSubmission(e) THEN "DuplicateSubmission" ELSE "InvalidState"
             /\ SubmissionStateUnchanged(e, p)
             /\ UNCHANGED storage]_vars

C1_Witness ==
    /\ lastCall.op = "submitPrediction"
    /\ lastCall.err = "Already submitted prediction"
    /\ lastCall.id \in Existing
    /\ userPredictions[lastCall.id][lastCall.caller].exists
    /\ Ev(lastCall.id).totalPredictions = 1

----------------------------------------------------------------------------
(* C2 *)

\* C2: the observed state of every event only moves forward along
\* Active -> Ended -> Finalized, one stage at a time, and a new event starts
\* Active.
C2_MonotonicLifecycle ==
    [][/\ Len(predictionEvents') >= Len(predictionEvents)
       /\ \A e \in Existing :
             /\ Phase(Ev(e)') >= Phase(Ev(e))
             /\ Phase(Ev(e)') - Phase(Ev(e)) <= 1
       /\ \A e \in (0 .. (Len(predictionEvents') - 1)) \ Existing :
             Phase(Ev(e)') = 0]_vars

C2_Witness ==
    \E e \in Existing, f \in Existing :
        Phase(Ev(e)) = 2 /\ Phase(Ev(f)) = 1

----------------------------------------------------------------------------
(* C3 *)

\* C3 as stated: when the callback of a request recorded for e has been
\* delivered with the oracle's decryption of the requested sum, the revealed
\* average is floor((v1 + ... + vn) / n) of the true arithmetic sum.
C3_AverageOfTrueSum ==
    (/\ lastCall.op = "decryptionCallback"
     /\ lastCall.err = ""
     /\ lastCall.id \in Recorded
     /\ lastCall.arg = OraclePayload(lastCall.id))
    => Ev(requestToEvent[lastCall.id]).decryptedAveragePrice
          = TrueAverage(requestToEvent[lastCall.id])

----------------------------------------------------------------------------
(* C4 *)

\* C4 as stated: no user other than the submitter holds access to, and no
\* decryption request names, a handle stored as a user's individual
\* prediction.
C4_IndividualHandlesPrivate ==
    \A e \in Existing : \A p \in Submitted(e) :
        LET h == userPredictions[e][p].encryptedPrice
        IN  /\ \A u \in Users \ {p} : <<h, u>> \notin fheACL
            /\ \A r \in Recorded : decryptionRequests[r + 1].handle # h

----------------------------------------------------------------------------
(* C5 *)

\* C5: in every reachable state, a finalized event is not active.
C5_FinalizedNotActive ==
    \A e \in Existing : Ev(e).isFinalized => ~Ev(e).isActive

C5_Witness ==
    \E e \in Existing : Ev(e).isFinalized /\ Ev(e).totalPredictions = 2

----------------------------------------------------------------------------
(* C6 *)

\* C6 as stated: an event becomes finalized only in the step of a callback
\* whose requestId a finalize call has recorded for that event.
C6_FinalizedOnlyByRecordedRequest ==
    [][\A e \in Existing :
          (~Ev(e).isFinalized /\ Ev(e)'.isFinalized)
          => /\ lastCall'.op = "decryptionCallback"
             /\ lastCall'.id \in Recorded
             /\ requestToEvent[lastCall'.id] = e]_vars

----------------------------------------------------------------------------
(* C7 *)

\* C7 as stated: a callback with a requestId no finalize call recorded fails
\* and changes nothing.
C7_UnknownRequestRejected ==
    [][(lastCall'.op = "decryptionCallback" /\ lastCall'.id \notin Recorded)
          => (lastCall'.err # "" /\ UNCHANGED storage)]_vars

----------------------------------------------------------------------------
(* C8 *)

\* C8: once an event is finalized, every callback that resolves to it is
\* rejected with InvalidState (already finalized) and changes nothing, and
\* no step changes its revealed average or its finalized flag.
C8_CallbackTakesEffectOnce ==
    [][\A e \in Existing :
          Ev(e).isFinalized
          => /\ Ev(e)'.isFinalized
             /\ Ev(e)'.decryptedAveragePrice = Ev(e).decryptedAveragePrice
             /\ (lastCall'.op = "decryptionCallback" /\ requestToEvent[lastCall'.id] = e)
                  => /\ lastCall'.err = "Event already finalized"
                     /\ ErrKind(lastCall'.err) = "InvalidState"
                     /\ UNCHANGED storage]_vars

C8_Witness ==
    /\ lastCall.op = "decryptionCallback"
    /\ lastCall.err = "Event already finalized"
    /\ lastCall.id = 1
    /\ NextRequestId = 2
    /\ requestToEvent[0] = requestToEvent[1]
    /\ lastCall.arg = OraclePayload(1)

----------------------------------------------------------------------------
(* C9 *)

\* C9 as stated: finalize on an event with no submissions fails with
\* InvalidState for every caller and issues and records no request.
C9_NoSubmissionsInvalidState ==
    [][(/\ lastCall'.op = "finalizePredictionEvent"
        /\ lastCall'.id \in Existing
        /\ Ev(lastCall'.id).totalPredictions = 0)
          => /\ ErrKind(lastCall'.err) = "InvalidState"
             /\ UNCHANGED <<decryptionRequests, requestToEvent>>]_vars

\* C9 amended: finalize on an event with no submissions always fails, with
\* InvalidState when the caller is the event's admin and with
\* PermissionDenied when it is not (the admin check comes first), and issues
\* and records no request, whatever the event's lifecycle state.
C9_NoSubmissionsNoRequest ==
    [][(/\ lastCall'.op = "finalizePredictionEvent"
        /\ lastCall'.id \in Existing
        /\ Ev(lastCall'.id).totalPredictions = 0)
          => /\ ErrKind(lastCall'.err) =
                  IF lastCall'.caller = Ev(lastCall'.id).admin
                  THEN "InvalidState" ELSE "PermissionDenied"
             /\ UNCHANGED storage]_vars

C9_Witness ==
    /\ lastCall.op = "finalizePredictionEvent"
    /\ lastCall.err = "No predictions to finalize"
    /\ lastCall.id \in Existing
    /\ ~Ev(lastCall.id).isActive

----------------------------------------------------------------------------
(* C10 *)

\* C10: setActualPrice or finalize on an existing event by a caller that is
\* not the event's admin fails with PermissionDenied, in every event state
\* and at every time, and changes nothing.
C10_NonAdminDenied ==
    [][(/\ lastCall'.op \in {"setActualPrice", "finalizePredictionEvent"}
        /\ lastCall'.id \in Existing
        /\ lastCall'.caller # Ev(lastCall'.id).admin)
          => /\ ErrKind(lastCall'.err) = "PermissionDenied"
             /\ UNCHANGED storage]_vars

C10_Witness ==
    /\ lastCall.op = "finalizePredictionEvent"
    /\ lastCall.err = "Only admin can perform this action"
    /\ lastCall.id \in Existing
    /\ lastCall.caller # Ev(lastCall.id).admin
    /\ ~Ev(lastCall.id).isActive
    /\ Ev(lastCall.id).totalPredictions > 0

----------------------------------------------------------------------------
(* C11 *)

\* C11: while an event is still flagged active, a submit made when
\* now >= endTime (a single submit, or a well-formed batch whose first item
\* names the event) fails with InvalidState, reason "Event has ended", and
\* records nothing; the active flag is cleared by nothing but a successful
\* endPredictionEvent call on that event, so passing endTime leaves it set.
C11_ExpiredSubmitRejected ==
    [][\A e \in Existing :
          /\ (/\ Ev(e).isActive
              /\ now >= Ev(e).endTime
              /\ \E p \in Users : IsFirstSubmitOn(lastCall', p, e))
               => /\ lastCall'.err = "Event has ended"
                  /\ ErrKind(lastCall'.err) = "InvalidState"
                  /\ UNCHANGED storage
          /\ (Ev(e).isActive /\ ~Ev(e)'.isActive)
               => /\ lastCall'.op = "endPredictionEvent"
                  /\ lastCall'.id = e
                  /\ lastCall'.err = ""]_vars

C11_Witness ==
    /\ lastCall.op = "submitPrediction"
    /\ lastCall.err = "Event has ended"
    /\ lastCall.id \in Existing
    /\ Ev(lastCall.id).isActive
    /\ now >= Ev(lastCall.id).endTime

----------------------------------------------------------------------------
(* C12 *)

\* C12: an end call on an event that is active with now >= endTime succeeds
\* and clears the active flag; from then on the event stays not active and
\* every end call on it fails with InvalidState and changes nothing.
C12_EndNotRepeatable ==
    [][\A e \in Existing :
          /\ (/\ lastCall'.op = "endPredictionEvent"
              /\ lastCall'.id = e
              /\ Ev(e).isActive
              /\ now >= Ev(e).endTime)
               => (lastCall'.err = "" /\ ~Ev(e)'.isActive)
          /\ ~Ev(e).isActive
               => /\ ~Ev(e)'.isActive
                  /\ (lastCall'.op = "endPredictionEvent" /\ lastCall'.id = e)
                       => /\ ErrKind(lastCall'.err) = "InvalidState"
                          /\ UNCHANGED storage]_vars

C12_Witness ==
    /\ lastCall.op = "endPredictionEvent"
    /\ lastCall.err = "Event not active"
    /\ lastCall.id \in Existing
    /\ ~Ev(lastCall.id).isActive
    /\ ~Ev(lastCall.id).isFinalized

----------------------------------------------------------------------------
(* C13 *)

\* C13: for every caller, endPredictionEvent succeeds exactly when the event
\* exists, is active and now >= endTime; when it succeeds its only effect is
\* isActive := false, and when it fails nothing changes.
C13_EndCallerIndependent ==
    [][lastCall'.op = "endPredictionEvent"
          => IF /\ lastCall'.id \in Existing
                /\ Ev(lastCall'.id).isActive
                /\ now >= Ev(lastCall'.id).endTime
             THEN /\ lastCall'.err = ""
                  /\ predictionEvents' =
                        [predictionEvents EXCEPT ![lastCall'.id + 1].isActive = FALSE]
                  /\ UNCHANGED <<now, userPredictions, requestToEvent, fheACL,
                                 decryptionRequests>>
             ELSE /\ lastCall'.err # ""
                  /\ UNCHANGED <<now, storage>>]_vars

C13_Witness ==
    /\ lastCall.op = "endPredictionEvent"
    /\ lastCall.err = ""
    /\ lastCall.caller # Ev(lastCall.id).admin
    /\ Ev(lastCall.id).totalPredictions > 0
    /\ ~Ev(lastCall.id).isActive

----------------------------------------------------------------------------
(* C14 *)

\* item i of the batch ids of sender p fails its precondition: the event is
\* missing or not open for submission, or p has a prediction on it already,
\* stored or made by an earlier item of the same batch
BatchItemFails(ids, p, i) ==
    IF ids[i] \notin Existing THEN TRUE
    ELSE \/ ~OpenForSubmission(ids[i])
         \/ userPredictions[ids[i]][p].exists
         \/ \E j \in 1 .. (i - 1) : ids[j] = ids[i]

\* C14: a batch with an item that fails its submit precondition fails as a
\* whole and mutates nothing, the items before the failing one included.
C14_BatchAllOrNothing ==
    [][(/\ lastCall'.op = "submitBatchPredictions"
        /\ \E i \in 1 .. Len(lastCall'.arg) :
              BatchItemFails(lastCall'.arg, lastCall'.caller, i))
          => (lastCall'.err # "" /\ UNCHANGED storage)]_vars

C14_Witness ==
    /\ lastCall.op = "submitBatchPredictions"
    /\ lastCall.err = "Already submitted prediction for event"
    /\ Len(lastCall.arg) = 2
    /\ lastCall.arg[1] \in Existing
    /\ OpenForSubmission(lastCall.arg[1])
    /\ ~userPredictions[lastCall.arg[1]][lastCall.caller].exists

----------------------------------------------------------------------------
(* C15 *)

\* C15: submitBatchPredictions fails with InvalidParameter and mutates
\* nothing when its three arrays differ in length, when the batch is empty
\* or when it has more than 10 items; with equal lengths from 1 to 10 none
\* of these argument checks fails.
C15_BatchArgumentChecks ==
    [][lastCall'.op = "submitBatchPredictions"
          => LET n == lastCall'.arg
             IN  IF n[1] # n[2] \/ n[1] # n[3] \/ n[1] = 0 \/ n[1] > 10
                 THEN /\ ErrKind(lastCall'.err) = "InvalidParameter"
                      /\ UNCHANGED storage
                 ELSE lastCall'.err \notin {"Array length mismatch",
                                            "Cannot submit empty batch",
                                            "Batch size too large"}]_vars

C15_Witness ==
    /\ lastCall.op = "submitBatchPredictions"
    /\ lastCall.arg = <<11, 11, 11>>
    /\ lastCall.err = "Batch size too large"
    /\ Len(predictionEvents) = 1
    /\ OpenForSubmission(0)

----------------------------------------------------------------------------
(* C16 *)

\* C16 as stated: once an event is finalized, setActualPrice on it fails and
\* its actual price never changes again.
C16_PriceFrozenOnceFinalized ==
    [][\A e \in Existing :
          Ev(e).isFinalized
          => /\ Ev(e)'.actualPrice = Ev(e).actualPrice
             /\ (lastCall'.op = "setActualPrice" /\ lastCall'.id = e)
                  => lastCall'.err # ""]_vars

----------------------------------------------------------------------------
(* C17 *)

\* C17: setActualPrice by the event's admin succeeds exactly when
\* now >= targetDate and the price is positive; it then writes the price and
\* nothing else, and otherwise fails and changes nothing.  An actual price
\* that is non-zero never becomes zero again.
C17_SetActualPriceGuards ==
    [][/\ (/\ lastCall'.op = "setActualPrice"
           /\ lastCall'.id \in Existing
           /\ lastCall'.caller = Ev(lastCall'.id).admin)
            => LET e == lastCall'.id
                   price == lastCall'.arg[1]
               IN  IF now >= Ev(e).targetDate /\ price > 0
                   THEN /\ lastCall'.err = ""
                        /\ predictionEvents' =
                              [predictionEvents EXCEPT ![e + 1].actualPrice = price]
                        /\ UNCHANGED <<now, userPredictions, requestToEvent, fheACL,
                                       decryptionRequests>>
                   ELSE /\ lastCall'.err # ""
                        /\ UNCHANGED <<now, storage>>
       /\ \A e \in Existing :
             Ev(e).actualPrice # 0 => Ev(e)'.actualPrice # 0]_vars

C17_Witness ==
    /\ lastCall.op = "setActualPrice"
    /\ lastCall.err = ""
    /\ lastCall.arg = <<510000>>
    /\ Ev(lastCall.id).actualPrice = 510000
    /\ now >= Ev(lastCall.id).targetDate

----------------------------------------------------------------------------
(* C18 *)

\* C18: on an ended, non-finalized event with predictions and no actual
\* price set (0), finalize by the admin succeeds and records its request,
\* and the callback delivering the oracle's answer to a recorded request
\* finalizes the event, whose actual price is still 0.
C18_FinalizeWithoutActualPrice ==
    [][/\ (/\ lastCall'.op = "finalizePredictionEvent"
           /\ lastCall'.id \in Existing
           /\ lastCall'.caller = Ev(lastCall'.id).admin
           /\ ~Ev(lastCall'.id).isActive
           /\ ~Ev(lastCall'.id).isFinalized
           /\ Ev(lastCall'.id).totalPredictions > 0
           /\ Ev(lastCall'.id).actualPrice = 0)
            => /\ lastCall'.err = ""
               /\ Len(decryptionRequests') = Len(decryptionRequests) + 1
               /\ requestToEvent'[NextRequestId] = lastCall'.id
       /\ (/\ lastCall'.op = "decryptionCallback"
           /\ lastCall'.id \in Recorded
           /\ lastCall'.arg = OraclePayload(lastCall'.id)
           /\ ~Ev(requestToEvent[lastCall'.id]).isFinalized
           /\ Ev(requestToEvent[lastCall'.id]).actualPrice = 0)
            => /\ lastCall'.err = ""
               /\ predictionEvents'[requestToEvent[lastCall'.id] + 1].isFinalized
               /\ predictionEvents'[requestToEvent[lastCall'.id] + 1].actualPrice = 0]_vars

C18_Witness ==
    /\ lastCall.op = "decryptionCallback"
    /\ lastCall.err = ""
    /\ lastCall.id \in Recorded
    /\ lastCall.arg = OraclePayload(lastCall.id)
    /\ Ev(requestToEvent[lastCall.id]).isFinalized
    /\ Ev(requestToEvent[lastCall.id]).actualPrice = 0

----------------------------------------------------------------------------
(* C19 *)

\* C19 as stated: at most one decryption request is ever issued for the
\* encrypted sum of an event.
C19_OneRequestPerEvent ==
    \A r1 \in Recorded : \A r2 \in Recorded :
        requestToEvent[r1] = requestToEvent[r2] => r1 = r2

----------------------------------------------------------------------------
(* C20 *)

\* C20: the encrypted sum and the count of predictions of an event change
\* only in the step of a successful submit or batch of submissions naming
\* the event, made while the event is active, not finalized and
\* now < endTime; every other call, and every call once the event is not
\* active, leaves them as they are.
C20_SumWrittenOnlyBySubmit ==
    [][\A e \in Existing :
          (\/ Ev(e)'.totalPredictions # Ev(e).totalPredictions
           \/ Ev(e)'.encryptedPriceSum # Ev(e).encryptedPriceSum)
          => /\ lastCall'.op \in {"submitPrediction", "submitBatchPredictions"}
             /\ lastCall'.err = ""
             /\ IsSubmitOn(lastCall', lastCall'.caller, e)
             /\ OpenForSubmission(e)]_vars

C20_Witness ==
    /\ lastCall.op = "decryptionCallback"
    /\ lastCall.err = ""
    /\ lastCall.id \in Recorded
    /\ Ev(requestToEvent[lastCall.id]).totalPredictions = 2
    /\ Len(Ev(requestToEvent[lastCall.id]).encryptedPriceSum) = 2
    /\ Ev(requestToEvent[lastCall.id]).actualPrice > 0

----------------------------------------------------------------------------
(* C21 *)

\* C21: the stored prediction of (event, participant) changes only in the
\* step of a successful submit or batch of that participant naming the
\* event, made while the event is active, not finalized and now < endTime,
\* and only from absent to present, stamped with the current time; once it
\* exists, no call modifies or deletes it.
C21_SubmissionWrittenOnce ==
    [][\A e \in EventIds : \A p \in Users :
          userPredictions'[e][p] # userPredictions[e][p]
          => /\ e \in Existing
             /\ ~userPredictions[e][p].exists
             /\ userPredictions'[e][p].exists
             /\ userPredictions'[e][p].timestamp = now
             /\ lastCall'.op \in {"submitPrediction", "submitBatchPredictions"}
             /\ lastCall'.err = ""
             /\ IsSubmitOn(lastCall', p, e)
             /\ OpenForSubmission(e)]_vars

C21_Witness ==
    /\ lastCall.op = "setActualPrice"
    /\ lastCall.err = ""
    /\ Ev(lastCall.id).isFinalized
    /\ \A p \in Users : /\ userPredictions[lastCall.id][p].exists
                        /\ userPredictions[lastCall.id][p].timestamp = DEPLOY_TIME
    /\ now > DEPLOY_TIME

----------------------------------------------------------------------------
(* C22 *)

\* C22: a successful create by caller c returns the number of events before
\* the call, appends exactly one event, which is active, not finalized,
\* administered by c, with no predictions, no actual price and no revealed
\* average, with the given title, token type and target date and
\* endTime = now + durationInHours * 3600 > now; the events and predictions
\* that existed before are unchanged.
C22_CreateAppendsEvent ==
    [][(lastCall'.op = "createPredictionEvent" /\ lastCall'.err = "")
          => LET a == lastCall'.arg
                 n == Len(predictionEvents)
                 new == predictionEvents'[n + 1]
             IN  /\ lastCall'.id = n
                 /\ Len(predictionEvents') = n + 1
                 /\ new.isActive /\ ~new.isFinalized
                 /\ new.admin = lastCall'.caller
                 /\ new.totalPredictions = 0
                 /\ new.actualPrice = 0
                 /\ new.decryptedAveragePrice = U32Zero
                 /\ new.title = a[1] /\ new.tokenType = a[2] /\ new.targetDate = a[3]
                 /\ new.endTime = now + a[4] * 3600
                 /\ new.endTime > now
                 /\ \A e \in Existing : Ev(e)' = Ev(e)
                 /\ UNCHANGED <<now, userPredictions, requestToEvent, fheACL,
                                decryptionRequests>>]_vars

C22_Witness ==
    /\ lastCall.op = "createPredictionEvent"
    /\ lastCall.err = ""
    /\ lastCall.id = 1
    /\ lastCall.arg = <<"BTC Price Prediction", "ETH", 3 * 3600, 2>>
    /\ Len(predictionEvents) = 2
    /\ Ev(1).endTime = 4 * 3600
    /\ Ev(0).admin # Ev(1).admin
    /\ userPredictions[0]["bob"].exists

----------------------------------------------------------------------------
(* C23 *)

\* C23: create with targetDate <= now or durationInHours = 0 fails with
\* InvalidParameter; no event is appended and nothing changes.
C23_CreateRejectsBadArguments ==
    [][(/\ lastCall'.op = "createPredictionEvent"
        /\ (lastCall'.arg[3] <= now \/ lastCall'.arg[4] = 0))
          => /\ ErrKind(lastCall'.err) = "InvalidParameter"
             /\ Len(predictionEvents') = Len(predictionEvents)
             /\ UNCHANGED storage]_vars

C23_Witness ==
    /\ lastCall.op = "createPredictionEvent"
    /\ lastCall.err = "Duration must be greater than 0"
    /\ lastCall.arg[3] > now
    /\ lastCall.arg[4] = 0
    /\ Len(predictionEvents) = 1

----------------------------------------------------------------------------
(* C24 *)

\* C24 as stated: create with an empty title is rejected with
\* InvalidParameter and appends no event.
C24_EmptyTitleRejected ==
    [][(lastCall'.op = "createPredictionEvent" /\ lastCall'.arg[1] = "")
          => /\ ErrKind(lastCall'.err) = "InvalidParameter"
             /\ Len(predictionEvents') = Len(predictionEvents)]_vars

----------------------------------------------------------------------------
(* C25 *)

\* C25: the number of events never decreases, every id below it names an
\* existing event, and the title, token type, target date, end time and
\* admin of an event never change once it is created (so an id is never
\* given to another event).
C25_RegistryAppendOnly ==
    [][/\ Len(predictionEvents') >= Len(predictionEvents)
       /\ \A e \in Existing :
             /\ eventExists(e) = ""
             /\ Ev(e)'.title = Ev(e).title
             /\ Ev(e)'.tokenType = Ev(e).tokenType
             /\ Ev(e)'.targetDate = Ev(e).targetDate
             /\ Ev(e)'.endTime = Ev(e).endTime
             /\ Ev(e)'.admin = Ev(e).admin]_vars

C25_Witness ==
    /\ Len(predictionEvents) = 2
    /\ Ev(0).isFinalized
    /\ Ev(0).actualPrice > 0
    /\ Ev(0).totalPredictions = 2
    /\ ~Ev(1).isActive
    /\ NextRequestId = 2

----------------------------------------------------------------------------
(* C26 *)

\* C26: submit, end, setActualPrice and finalize on an id that is not below
\* the number of events fail with NotFound, for every caller (the existence
\* check comes before the admin check), and change nothing; reading the
\* event, its encrypted sum or its revealed average under such an id fails
\* with NotFound.
C26_MissingEventNotFound ==
    [][/\ (/\ lastCall'.op \in {"submitPrediction", "endPredictionEvent",
                                "setActualPrice", "finalizePredictionEvent"}
           /\ lastCall'.id >= GetEventCount)
            => /\ lastCall'.err = "Event does not exist"
               /\ ErrKind(lastCall'.err) = "NotFound"
               /\ UNCHANGED storage
       /\ \A e \in CallEventIdArgs :
             e >= GetEventCount
             => /\ ErrKind(GetPredictionEventErr(e)) = "NotFound"
                /\ ErrKind(GetEncryptedPriceSumErr(e)) = "NotFound"
                /\ ErrKind(GetDecryptedAveragePriceErr(e)) = "NotFound"]_vars

C26_Witness ==
    /\ lastCall.op = "finalizePredictionEvent"
    /\ lastCall.err = "Event does not exist"
    /\ lastCall.id = 1
    /\ GetEventCount = 1
    /\ ~Ev(0).isActive
    /\ Ev(0).totalPredictions > 0

----------------------------------------------------------------------------
(* C27 *)

\* C27: while an event is not finalized its revealed average is the initial
\* 0 and reading it fails (InvalidState, "Event not finalized"); the step
\* that finalizes it is a callback, which stores the average of its payload;
\* once the event is finalized the read succeeds and keeps returning the
\* stored value.
C27_AverageIffFinalized ==
    [][\A e \in Existing :
          /\ IF Ev(e).isFinalized
             THEN /\ GetDecryptedAveragePriceErr(e) = ""
                  /\ GetDecryptedAveragePrice(e)' = GetDecryptedAveragePrice(e)
             ELSE /\ Ev(e).decryptedAveragePrice = U32Zero
                  /\ GetDecryptedAveragePriceErr(e) = "Event not finalized"
                  /\ ErrKind(GetDecryptedAveragePriceErr(e)) = "InvalidState"
          /\ (~Ev(e).isFinalized /\ Ev(e)'.isFinalized)
               => /\ lastCall'.op = "decryptionCallback"
                  /\ GetDecryptedAveragePriceErr(e)' = ""
                  /\ GetDecryptedAveragePrice(e)' =
                        U32Div(ParseU32(lastCall'.arg), ToU32(Ev(e).totalPredictions))]_vars

C27_Witness ==
    /\ lastCall.op = "decryptionCallback"
    /\ lastCall.err = ""
    /\ lastCall.id \in Recorded
    /\ lastCall.arg = OraclePayload(lastCall.id)
    /\ GetDecryptedAveragePriceErr(requestToEvent[lastCall.id]) = ""
    /\ GetDecryptedAveragePrice(requestToEvent[lastCall.id]) = U32(32768, 0)

----------------------------------------------------------------------------
(* C28 *)

\* the step is a submit, end, setActualPrice or finalize on event a, or a
\* decryption callback that acts on event a
StepConcerns(a) ==
    \/ \E s \in Users, v \in ClearValues : SubmitPrediction(s, a, v)
    \/ \E s \in Users : EndPredictionEvent(s, a)
    \/ \E s \in Users, p \in Prices : SetActualPrice(s, a, p)
    \/ \E s \in Users : FinalizePredictionEvent(s, a)
    \/ \E r \in RequestIds, c \in Payloads :
          requestToEvent[r] = a /\ DecryptionCallback(ORACLE, r, c)

\* C28 as stated: an operation that concerns event a leaves the record and
\* the submissions of every other event b unchanged, and every operation
\* that concerns b has after it the outcome it had before it (so that the
\* two can be made in either order with the same outcomes and final state).
C28_OperationsIndependent ==
    [][\A a \in Existing :
          StepConcerns(a)
          => \A b \in Existing \ {a} :
                /\ Ev(b)' = Ev(b)
                /\ userPredictions'[b] = userPredictions[b]
                /\ EndErr(b)' = EndErr(b)
                /\ \A s \in Users :
                      /\ SubmitErr(b, s)' = SubmitErr(b, s)
                      /\ FinalizeErr(b, s)' = FinalizeErr(b, s)
                      /\ \A p \in Prices :
                            SetActualPriceErr(b, s, p)' = SetActualPriceErr(b, s, p)
                /\ \A r \in RequestIds :
                      requestToEvent[r] = b
                      => /\ requestToEvent'[r] = b
                         /\ \A c \in Payloads : CallbackErr(r, c)' = CallbackErr(r, c)]_vars

----------------------------------------------------------------------------
(* C29 *)

\* C29: with an oracle that eventually delivers the callback of every issued
\* request, an event for which a finalize call has issued a request is
\* eventually finalized, whatever is called in between.
C29_FinalizeLeadsToFinalized ==
    \A e \in EventIds :
        (\E r \in Recorded : requestToEvent[r] = e)
        ~> (e \in Existing /\ Ev(e).isFinalized)

C29_Witness ==
    \E r \in Recorded :
        /\ Ev(requestToEvent[r]).isFinalized
        /\ Ev(requestToEvent[r]).totalPredictions = 1
        /\ Ev(requestToEvent[r]).actualPrice = 0
        /\ Ev(requestToEvent[r]).decryptedAveragePrice = U32(32768, 0)

----------------------------------------------------------------------------
(* C30 *)

\* the sum modulo 2^32 of the cleartexts of the predictions stored for e
WrappedSum(e) ==
    LET hiSum == SumOver(Submitted(e), e, "hi")
        loSum == SumOver(Submitted(e), e, "lo")
    IN  U32((hiSum + (loSum \div B16)) % B16, loSum % B16)

\* C30: in every reachable state, every event that counts at least one
\* prediction counts exactly the predictions stored for it, and its
\* encrypted sum decrypts to the sum modulo 2^32 of their cleartexts.
C30_SumOfRecordedSubmissions ==
    \A e \in Existing :
        Ev(e).totalPredictions > 0
        => /\ Ev(e).totalPredictions = Cardinality(Submitted(e))
           /\ Cleartext(Ev(e).encryptedPriceSum) = WrappedSum(e)

C30_Witness ==
    /\ lastCall.op = "submitBatchPredictions"
    /\ lastCall.err = ""
    /\ lastCall.caller = "bob"
    /\ \E e \in Existing :
          /\ \E i \in 1 .. Len(lastCall.arg) : lastCall.arg[i] = e
          /\ Submitted(e) = Users
          /\ Ev(e).totalPredictions = 2
          /\ \A u \in Users :
                Cleartext(userPredictions[e][u].encryptedPrice) = U32(32768, 0)
          /\ Cleartext(Ev(e).encryptedPriceSum) = U32Zero

----------------------------------------------------------------------------
(* C31 *)

\* the number of successful submissions of p on e that the call c made
ItemsOn(c, p, e) ==
    IF c.err # "" \/ c.caller # p THEN 0
    ELSE IF c.op = "submitPrediction" THEN (IF c.id = e THEN 1 ELSE 0)
    ELSE IF c.op = "submitBatchPredictions"
         THEN Cardinality({i \in 1 .. Len(c.arg) : c.arg[i] = e})
    ELSE 0

\* C31: after every call, the count of an event is the number of users for
\* whom hasUserPredicted is true; it is the count before the call plus one
\* for each successful submission (single or batch item) of the call on the
\* event, so it never decreases; and hasUserPredicted(e, p) is true after
\* the call exactly when it was true before or the call was a successful
\* submission of p on e.
C31_CountMatchesSubmitters ==
    [][\A e \in EventIds :
          e < Len(predictionEvents')
          => LET before == IF e \in Existing THEN Ev(e).totalPredictions ELSE 0
                 after == predictionEvents'[e + 1].totalPredictions
                 made == ItemsOn(lastCall', "alice", e) + ItemsOn(lastCall', "bob", e)
             IN  /\ after = Cardinality({p \in Users : HasUserPredicted(e, p)'})
                 /\ after = before + made
                 /\ after >= before
                 /\ \A p \in Users :
                       HasUserPredicted(e, p)'
                       <=> (HasUserPredicted(e, p) \/ ItemsOn(lastCall', p, e) = 1)]_vars

C31_Witness ==
    /\ lastCall.op = "submitPrediction"
    /\ lastCall.err = ""
    /\ lastCall.caller = "bob"
    /\ Ev(lastCall.id).totalPredictions = 2
    /\ HasUserPredicted(lastCall.id, "alice")
    /\ HasUserPredicted(lastCall.id, "bob")

----------------------------------------------------------------------------
(* C32 *)

\* C32: in every reachable state, the admin of an event that counts at
\* least one prediction holds access to the handle stored as the event's
\* encrypted sum.
C32_AdminCanReadCurrentSum ==
    \A e \in Existing :
        Ev(e).totalPredictions > 0
        => <<Ev(e).encryptedPriceSum, Ev(e).admin>> \in fheACL

C32_Witness ==
    /\ lastCall.op = "submitBatchPredictions"
    /\ lastCall.err = ""
    /\ lastCall.caller = "alice"
    /\ \E e \in Existing :
          /\ \E i \in 1 .. Len(lastCall.arg) : lastCall.arg[i] = e
          /\ Ev(e).admin = "bob"
          /\ Ev(e).totalPredictions = 2
          /\ Len(Ev(e).encryptedPriceSum) = 2
          /\ Ev(e).encryptedPriceSum[1].owner = "bob"
          /\ <<Ev(e).encryptedPriceSum, "bob">> \in fheACL

----------------------------------------------------------------------------
(* C33 *)

\* C33: from the finalize call that issued request r for event e onwards,
\* whatever is called in between, the count and the encrypted sum of e stay
\* what they were at the call (the sum being the handle of the request),
\* and the oracle's delivery of r writes floor(S / n), S the cleartext of
\* that handle and n that count.
C33_CallbackAveragesTheRequest ==
    [][\A r \in Recorded :
          LET e == requestToEvent[r]
              S == Cleartext(decryptionRequests[r + 1].handle)
              n == Cardinality(Submitted(e))
          IN  decryptionRequests[r + 1].selector = "decryptionCallback"
              => /\ decryptionRequests[r + 1].handle = Ev(e).encryptedPriceSum
                 /\ Ev(e).totalPredictions = n
                 /\ predictionEvents'[e + 1].totalPredictions = Ev(e).totalPredictions
                 /\ predictionEvents'[e + 1].encryptedPriceSum = Ev(e).encryptedPriceSum
                 /\ DecryptionCallback(ORACLE, r, OraclePayload(r))
                       => predictionEvents'[e + 1].decryptedAveragePrice
                             = U32((S.hi \div n) % B16,
                                   (((S.hi % n) * B16 + S.lo) \div n) % B16)]_vars

C33_Witness ==
    /\ NextRequestId = 2
    /\ requestToEvent[0] = 1
    /\ requestToEvent[1] = 0
    /\ Ev(0).isFinalized
    /\ Ev(0).totalPredictions = 2
    /\ Cleartext(decryptionRequests[2].handle) = U32(32768, 1)
    /\ Ev(0).decryptedAveragePrice = U32(16384, 0)
    /\ Ev(0).actualPrice = 510000
    /\ ~Ev(1).isFinalized

----------------------------------------------------------------------------
(* C34 *)

\* C34 as stated: an entry of _requestToEvent changes only in a successful
\* finalizePredictionEvent, which sets the entry of the request it issues
\* to the id of its event; an entry set once is not set again; no other
\* call writes an entry.
C34_TableWrittenOnlyByFinalize ==
    [][\A r \in RequestIds :
          requestToEvent'[r] # requestToEvent[r]
          => /\ r = NextRequestId
             /\ \E s \in Users, e \in EventIds :
                   /\ FinalizePredictionEvent(s, e)
                   /\ requestToEvent'[r] = e]_vars

----------------------------------------------------------------------------
(* C35 *)

\* C35 as stated: a submission (submitPrediction, or a well-formed batch of
\* one item) on an existing event fails with the reason NotActive when the event is not
\* active, with Expired when it is active and now >= endTime, and with
\* AlreadyFinalized when it has been finalized.
C35_DistinctReasons ==
    [][\A e \in Existing :
          (\/ lastCall'.op = "submitPrediction" /\ lastCall'.id = e
           \/ /\ lastCall'.op = "submitBatchPredictions"
              /\ lastCall'.arg = <<e>>
              /\ ErrKind(lastCall'.err) # "InvalidParameter")
          => /\ Ev(e).isFinalized
                  => ReasonTag(lastCall'.err) = "AlreadyFinalized"
             /\ (~Ev(e).isActive /\ ~Ev(e).isFinalized)
                  => ReasonTag(lastCall'.err) = "NotActive"
             /\ (Ev(e).isActive /\ now >= Ev(e).endTime)
                  => ReasonTag(lastCall'.err) = "Expired"]_vars

----------------------------------------------------------------------------
(* C36 *)

\* C36: on an active event, a submitPrediction call of a user who has not
\* submitted succeeds exactly when now < endTime and an endPredictionEvent
\* call succeeds exactly when now >= endTime; so at every time exactly one
\* of the two is accepted, and at now = endTime it is the end.
C36_WindowsComplementary ==
    [][\A e \in Existing :
          Ev(e).isActive
          => /\ (SubmitErr(e, "alice") = "" /\ EndErr(e) = "") = FALSE
             /\ (lastCall'.op = "submitPrediction" /\ lastCall'.id = e
                   /\ ~HasUserPredicted(e, lastCall'.caller))
                  => /\ (lastCall'.err = "") = (now < Ev(e).endTime)
                     /\ (lastCall'.err = "") = (EndErr(e) # "")
             /\ (lastCall'.op = "endPredictionEvent" /\ lastCall'.id = e)
                  => /\ (lastCall'.err = "") = (now >= Ev(e).endTime)
                     /\ \A p \in Users \ Submitted(e) :
                           (lastCall'.err = "") = (SubmitErr(e, p) # "")]_vars

C36_Witness ==
    /\ lastCall.op = "submitPrediction"
    /\ lastCall.err = "Event has ended"
    /\ lastCall.id \in Existing
    /\ Ev(lastCall.id).isActive
    /\ now = Ev(lastCall.id).endTime
    /\ ~HasUserPredicted(lastCall.id, lastCall.caller)
    /\ EndErr(lastCall.id) = ""

----------------------------------------------------------------------------
(* C37 *)

\* the event has been ended and counts no prediction
EndedEmpty(event_) ==
    ~event_.isActive /\ event_.totalPredictions = 0

\* C37: an event that has been ended without predictions is not finalized,
\* and no step finalizes it, re-opens it or changes its count.
C37_EndedEmptyNeverFinalized ==
    [][\A e \in Existing :
          EndedEmpty(Ev(e))
          => /\ ~Ev(e).isFinalized
             /\ EndedEmpty(predictionEvents'[e + 1])
             /\ ~predictionEvents'[e + 1].isFinalized
             /\ Submitted(e)' = {}
             /\ \A r \in RequestIds, c \in Payloads :
                   requestToEvent[r] = e => CallbackErr(r, c) # ""]_vars

C37_Witness ==
    /\ Len(predictionEvents) = 2
    /\ EndedEmpty(Ev(0))
    /\ ~Ev(0).isFinalized
    /\ Ev(1).isFinalized
    /\ NextRequestId = 1
    /\ requestToEvent[0] = 1
    /\ requestToEvent[1] = 0

----------------------------------------------------------------------------
(* C38 *)

\* C38: in every reachable state, a submitBatchPredictions call whose arrays
\* pass the size checks succeeds exactly when each of its items, submitted by
\* the same caller with submitPrediction one after the other at the same
\* time, succeeds; and a batch that succeeds writes the stored predictions,
\* the sums, the counts and the access grants those single submissions leave.
C38_BatchIsSequenceOfSubmits ==
    \A s \in Users, b \in BatchInputs :
        LET one == OneByOne(World, s, b[1], b[2], 1)
            batch == BatchLoop(World, s, b[1], b[2], 1)
        IN  BatchArgsErr(Len(b[1]), Len(b[2]), b[3]) = ""
            => /\ (BatchErr(s, b[1], b[2], b[3]) = "") = one.ok
               /\ BatchErr(s, b[1], b[2], b[3]) = "" => batch.w = one.w

C38_Witness ==
    /\ Len(predictionEvents) = 2
    /\ HasUserPredicted(0, "bob") /\ HasUserPredicted(1, "bob")
    /\ HasUserPredicted(0, "alice") /\ ~HasUserPredicted(1, "alice")
    /\ Ev(0).encryptedPriceSum =
          <<ExternalInput("alice", U32(0, 1)), ExternalInput("bob", U32(32768, 0))>>
    /\ Ev(1).encryptedPriceSum = <<ExternalInput("bob", U32(0, 1))>>
    /\ <<Ev(0).encryptedPriceSum, Ev(0).admin>> \in fheACL
    /\ <<Ev(1).encryptedPriceSum, Ev(1).admin>> \in fheACL

----------------------------------------------------------------------------
(* C39 *)

\* the batch names some event id in two items
NamesTwice(eventIds) ==
    \E i, j \in 1 .. Len(eventIds) : i # j /\ eventIds[i] = eventIds[j]

\* C39: a submitBatchPredictions call that names an event id in two items
\* reverts and changes nothing; when each item on its own would be accepted
\* the message is that of the duplicate check; and no batch call
\* raises the count of an event by more than one.
C39_RepeatedIdRejected ==
    [][lastCall'.op = "submitBatchPredictions"
       => /\ NamesTwice(lastCall'.arg)
               => /\ lastCall'.err # ""
                  /\ UNCHANGED storage
                  /\ (/\ ErrKind(lastCall'.err) # "InvalidParameter"
                      /\ \A i \in 1 .. Len(lastCall'.arg) :
                            SubmitErr(lastCall'.arg[i], lastCall'.caller) = "")
                       => lastCall'.err = "Already submitted prediction for event"
          /\ \A e \in Existing :
                /\ predictionEvents'[e + 1].totalPredictions <= Ev(e).totalPredictions + 1
                /\ Cardinality(Submitted(e)') <= Cardinality(Submitted(e)) + 1]_vars

C39_Witness ==
    /\ lastCall.op = "submitBatchPredictions"
    /\ lastCall.arg = <<0, 0>>
    /\ lastCall.err = "Already submitted prediction for event"
    /\ 0 \in Existing
    /\ SubmitErr(0, lastCall.caller) = ""
    /\ Ev(0).totalPredictions = 0

----------------------------------------------------------------------------
(* C40 *)

\* C40 as stated: in every reachable state, getPredictionStatistics of every
\* existing event returns without failing, its totalPredictions and
\* uniquePredictors are the count of the event, and at most one of
\* activePredictions and finalizedPredictions is not zero.
C40_StatisticsTotal ==
    \A e \in Existing :
        /\ GetPredictionStatisticsErr(e) = ""
        /\ GetPredictionStatistics(e)[1] = Ev(e).totalPredictions
        /\ GetPredictionStatistics(e)[5] = Ev(e).totalPredictions
        /\ GetPredictionStatistics(e)[2] = 0 \/ GetPredictionStatistics(e)[3] = 0

====
